---- MODULE Spec2Model ----
(***************************************************************************)
(* Transcription agent: TranscriptionService (per-participant STT session  *)
(* lifecycle), StorageService (participant states, room events) and the    *)
(* callbacks of RoomService that drive them.                               *)
(*                                                                         *)
(* Execution model.  The agent runs on one JavaScript event loop: a        *)
(* handler runs without interruption until it suspends on a timer          *)
(* (delay(50), delay(300)) or on an asynchronous iterator (the next audio  *)
(* frame, the next provider event).  Each action below is one such run:    *)
(* from the event that resumes a handler to its next suspension.  An       *)
(* await of a promise that is already settled only defers to the           *)
(* microtask queue, which drains before any timer or I/O callback, so it   *)
(* is not a point where another handler of this model can run.             *)
(*                                                                         *)
(* Environment.  The provider stream and the audio source are outside the  *)
(* repository.  An audio source delivers frames until it ends; a provider  *)
(* stream delivers events until it ends, also events that were in flight   *)
(* when close() was called; pushFrame on a closed stream throws; close()   *)
(* on a stream that was closed before may throw or not.                    *)
(* The clock read by new Date() does not go back; several calls may read   *)
(* the same instant.  The room may disconnect at any moment, and a         *)
(* termination signal may arrive at any moment; roomService.disconnect()   *)
(* takes time, during which callbacks of the room are still delivered.     *)
(***************************************************************************)
EXTENDS Integers, Sequences, FiniteSets, TLC

\* Bounds of the model.
\* setupTranscription calls of a participant
MaxSetups == 2
\* setupTranscription calls of a participant who rejoins in quick succession
MaxRejoins == 3
\* direct abortTranscription calls
MaxAborts == 1
\* transcript entries stored
MaxTranscripts == 2
\* room events recorded by the callbacks that drive the store alone
MaxRoomEvents == 3
\* calls that record something in the store of two participants
MaxStoreCalls == 3
\* the latest instant of the clock, where the clock advances freely
MaxClock == 1
\* calls of exportTranscript
MaxExports == 1

Identities == {"a", "b"}
SetupCalls == 1..MaxSetups
RejoinCalls == 1..MaxRejoins
Sessions == SetupCalls \cup RejoinCalls \cup {1, 2}
AbortCalls == 1..MaxAborts

\* participant.name || participant.identity
DisplayNames == {"alice", "bob"}

\* state.sttStream === undefined
NoStream == 0
\* instants of the clock in one second, the resolution of toLocaleTimeString
TicksPerSecond == 2
\* the whitespace character of a transcript text; every other character is > 0
Space == 0

VARIABLES
  participantStates,  \* StorageService.participantStates: identity -> ParticipantState
  roomEvents,         \* StorageService.roomEvents
  now,                \* the clock read by new Date()
  abortControllers,   \* TranscriptionService.abortControllers: identity -> controller
  aborted,            \* the controllers whose signal.aborted is true
  isShuttingDown,     \* TranscriptionService.isShuttingDown
  room,               \* TranscriptionService.room is set
  published,          \* payloads handed to localParticipant.publishData
  sttStreams,         \* the provider stream of each setupTranscription call
  setup,              \* each setupTranscription call: position, identity
  consumer,           \* each processTranscriptEvents call: position
  aborts,             \* each direct abortTranscription call: position, identity
  shutdownCall,       \* the shutdown() call: position, identities left
  cleanupLog,         \* per identity, the number of 'Cleanup completed' lines logged
  startedDuring,      \* abortTranscription calls that saw a session start meanwhile
  exports,            \* the transcripts exportTranscript has handed to fs.writeFile
  arrivals,           \* every transcript entry and room event, in the order recorded
  reports             \* what the error handlers have logged: warnings and errors

\* the variables cleanupTranscription, abortTranscription and session creation write
sessionVars == <<participantStates, abortControllers, aborted, sttStreams, cleanupLog>>
otherVars == <<roomEvents, now, isShuttingDown, room, published, exports, arrivals,
              reports>>
taskVars == <<setup, consumer, aborts, shutdownCall, startedDuring>>
vars == <<sessionVars, otherVars, taskVars>>

----------------------------------------------------------------------------
\* Map<K, V> as a function whose domain is the set of keys present.

MapSet(m, k, v) == [x \in DOMAIN m \cup {k} |-> IF x = k THEN v ELSE m[x]]

MapDelete(m, k) == [x \in DOMAIN m \ {k} |-> m[x]]

EmptyMap == [x \in {} |-> 0]

----------------------------------------------------------------------------
\* StorageService

RECURSIVE SumLen(_, _)
SumLen(ps, ids) ==
  IF ids = {} THEN 0
  ELSE LET i == CHOOSE x \in ids : TRUE
       IN Len(ps[i].transcripts) + SumLen(ps, ids \ {i})

NewParticipantState(name, t) ==
  [name |-> name, transcripts |-> <<>>, isActive |-> FALSE,
   sttStream |-> NoStream, joinedAt |-> t, leftAt |-> <<>>]

RoomEventRecord(type, identity, name, t) ==
  [timestamp |-> t, type |-> type, participantIdentity |-> identity,
   participantName |-> name]

\* an addParticipant that leaves a participant it knows as it is
AddParticipantStateNoReset(ps, identity, name, t) ==
  IF identity \notin DOMAIN ps
  THEN MapSet(ps, identity, NewParticipantState(name, t))
  ELSE ps

\* an addParticipant that makes a fresh state on every call
AddParticipantStateFresh(ps, identity, name, t) ==
  MapSet(ps, identity, NewParticipantState(name, t))

\* addParticipant: the participant map after the call
AddParticipantState(ps, identity, name, t) ==
  IF identity \notin DOMAIN ps
  THEN MapSet(ps, identity, NewParticipantState(name, t))
  ELSE [ps EXCEPT ![identity].name = name,
                  ![identity].joinedAt = t,
                  ![identity].leftAt = <<>>]

TranscriptEntry(identity, name, text, isFinal, t) ==
  [timestamp |-> t, participantIdentity |-> identity, participantName |-> name,
   text |-> text, isFinal |-> isFinal]

\* exportTranscript, lines 125-132: the items of the timeline
TranscriptItem(entry) == [type |-> "transcript", data |-> entry]

RoomItem(event) == [type |-> "room_event", data |-> event]

\* an addTranscript that puts the entry in front of the earlier ones
AddTranscriptInFront(ps, identity, text, isFinal, t) ==
  IF identity \notin DOMAIN ps
  THEN ps
  ELSE [ps EXCEPT ![identity].transcripts =
          <<TranscriptEntry(identity, ps[identity].name, text, isFinal, t)>> \o @]

\* an addTranscript that names the speaker by the identity
AddTranscriptByIdentity(ps, identity, text, isFinal, t) ==
  IF identity \notin DOMAIN ps
  THEN ps
  ELSE [ps EXCEPT ![identity].transcripts =
          Append(@, TranscriptEntry(identity, identity, text, isFinal, t))]

\* addTranscript: the participant map after the call
AddTranscript(ps, identity, text, isFinal, t) ==
  IF identity \notin DOMAIN ps
  THEN ps
  ELSE [ps EXCEPT ![identity].transcripts =
          Append(@, TranscriptEntry(identity, ps[identity].name, text, isFinal, t))]

\* a markParticipantLeft that makes a state for a participant it does not know
MarkParticipantLeftStateCreates(ps, identity, t) ==
  IF identity \in DOMAIN ps
  THEN [ps EXCEPT ![identity].leftAt = <<t>>]
  ELSE MapSet(ps, identity, [NewParticipantState(identity, t) EXCEPT !.leftAt = <<t>>])

\* markParticipantLeft: the participant map after the call
MarkParticipantLeftState(ps, identity, t) ==
  IF identity \in DOMAIN ps THEN [ps EXCEPT ![identity].leftAt = <<t>>] ELSE ps

\* Map.forEach visits the participants in the order of insertion, which is the
\* order of their first join events (addParticipant inserts and logs together)
RECURSIVE ParticipantOrder(_)
ParticipantOrder(events) ==
  IF events = <<>> THEN <<>>
  ELSE LET before == ParticipantOrder(SubSeq(events, 1, Len(events) - 1))
           e == events[Len(events)]
       IN IF e.type = "join" /\ \A k \in 1..Len(before) : before[k] # e.participantIdentity
          THEN Append(before, e.participantIdentity)
          ELSE before

\* exportTranscript, lines 119-122
RECURSIVE AllTranscripts(_, _)
AllTranscripts(ps, order) ==
  IF order = <<>> THEN <<>>
  ELSE ps[Head(order)].transcripts \o AllTranscripts(ps, Tail(order))

\* exportTranscript, lines 129-132: transcripts first, then room events
CombinedTimeline(ps, events) ==
  LET all == AllTranscripts(ps, ParticipantOrder(events))
  IN [k \in 1..Len(all) |-> TranscriptItem(all[k])]
     \o [k \in 1..Len(events) |-> RoomItem(events[k])]

\* Array.prototype.sort with the comparator of lines 135-139 is a stable sort:
\* an item goes behind every item that is not later than it
InsertByTime(sorted, item) ==
  LET n == Cardinality({k \in 1..Len(sorted) :
                          sorted[k].data.timestamp <= item.data.timestamp})
  IN SubSeq(sorted, 1, n) \o <<item>> \o SubSeq(sorted, n + 1, Len(sorted))

RECURSIVE SortByTime(_)
SortByTime(items) ==
  IF items = <<>> THEN <<>>
  ELSE InsertByTime(SortByTime(SubSeq(items, 1, Len(items) - 1)), items[Len(items)])

\* an exportTranscript that forgets the sort of lines 135-139
TimelineUnsorted(ps, events) == CombinedTimeline(ps, events)

\* exportTranscript, lines 119-139
Timeline(ps, events) == SortByTime(CombinedTimeline(ps, events))

\* Date.toLocaleTimeString: the time of day, to the second
LocaleTime(t) == t \div TicksPerSecond

\* exportTranscript, lines 146-154: the line of one item
RenderItem(item) ==
  IF item.type = "transcript"
  THEN [time |-> LocaleTime(item.data.timestamp),
        speaker |-> item.data.participantName, text |-> item.data.text]
  ELSE [time |-> LocaleTime(item.data.timestamp),
        name |-> item.data.participantName,
        action |-> IF item.data.type = "join" THEN "joined the room" ELSE "left the room"]

\* exportTranscript, line 143
NoActivity == [marker |-> "(no activity)"]

\* an exportTranscript that writes no marker for an empty timeline
ExportBodyNoMarker(timeline) ==
  [k \in 1..Len(timeline) |-> RenderItem(timeline[k])]

\* exportTranscript, lines 142-157: the lines below the header
ExportBody(timeline) ==
  IF Len(timeline) = 0
  THEN <<NoActivity>>
  ELSE [k \in 1..Len(timeline) |-> RenderItem(timeline[k])]

\* exportTranscript: the participant count of the header, the sorted timeline
\* and the lines rendered from it
ExportTranscriptResult(ps, events) ==
  LET timeline == Timeline(ps, events)
  IN [participants |-> Cardinality(DOMAIN ps),
      timeline |-> timeline,
      lines |-> ExportBody(timeline)]

----------------------------------------------------------------------------
\* TranscriptionService: the synchronous pieces, as functions of the service
\* state sv = [ps, ac, ab, st, log] (participant states, abortControllers,
\* aborted controllers, provider streams, cleanup log lines).

ServiceState ==
  [ps |-> participantStates, ac |-> abortControllers, ab |-> aborted,
   st |-> sttStreams, log |-> cleanupLog]

\* close() may throw only on a stream that was closed before
CloseMayThrow(sv, identity) ==
  /\ identity \in DOMAIN sv.ps
  /\ sv.ps[identity].sttStream # NoStream
  /\ sv.st[sv.ps[identity].sttStream].closeCalls > 0

\* cleanupTranscription, lines 272-275: remove the controller, log completion
CleanupFinish(sv, identity) ==
  [sv EXCEPT !.ac = MapDelete(sv.ac, identity),
             !.log[identity] = @ + 1]

\* a cleanupTranscription that marks every participant inactive and closes
\* nothing
CleanupTranscriptionBeginAll(sv, identity, throws) ==
  IF identity \notin DOMAIN sv.ps
  THEN [sv |-> sv, wait |-> FALSE]
  ELSE [sv |-> CleanupFinish(
                 [sv EXCEPT !.ps = [i \in DOMAIN sv.ps |->
                                      [sv.ps[i] EXCEPT !.isActive = FALSE]]],
                 identity),
        wait |-> FALSE]

\* cleanupTranscription up to its return or to the await of delay(50).
\* throws: close() throws.  Result: the state and whether the call now waits.
CleanupTranscriptionBegin(sv, identity, throws) ==
  IF identity \notin DOMAIN sv.ps
  THEN [sv |-> sv, wait |-> FALSE]
  ELSE LET h == sv.ps[identity].sttStream
           ps1 == [sv.ps EXCEPT ![identity].isActive = FALSE]
       IN IF h = NoStream
          THEN [sv |-> CleanupFinish([sv EXCEPT !.ps = ps1], identity),
                wait |-> FALSE]
          ELSE LET st1 == [sv.st EXCEPT ![h].closeCalls = @ + 1]
               IN IF throws
                  THEN [sv |-> CleanupFinish(
                                 [sv EXCEPT !.ps = [ps1 EXCEPT ![identity].sttStream = NoStream],
                                            !.st = st1], identity),
                        wait |-> FALSE]
                  ELSE [sv |-> [sv EXCEPT !.ps = ps1, !.st = st1], wait |-> TRUE]

\* a cleanupTranscription that forgets line 269 (state.sttStream = undefined)
CleanupTranscriptionResumeKeepsHandle(sv, identity) ==
  CleanupFinish(sv, identity)

\* cleanupTranscription from the end of delay(50) to its return
CleanupTranscriptionResume(sv, identity) ==
  CleanupFinish([sv EXCEPT !.ps[identity].sttStream = NoStream], identity)

\* an abortTranscription that marks every participant inactive
AbortTranscriptionBeginAll(sv, identity, throws) ==
  LET ab1 == IF identity \in DOMAIN sv.ac THEN sv.ab \cup {sv.ac[identity]} ELSE sv.ab
      ac1 == MapDelete(sv.ac, identity)
      ps1 == [i \in DOMAIN sv.ps |-> [sv.ps[i] EXCEPT !.isActive = FALSE]]
  IN CleanupTranscriptionBegin([sv EXCEPT !.ab = ab1, !.ac = ac1, !.ps = ps1],
                               identity, throws)

\* an abortTranscription that forgets line 229 (abortController.abort())
AbortTranscriptionBeginNoCancel(sv, identity, throws) ==
  LET ac1 == MapDelete(sv.ac, identity)
      ps1 == IF identity \in DOMAIN sv.ps
             THEN [sv.ps EXCEPT ![identity].isActive = FALSE]
             ELSE sv.ps
  IN CleanupTranscriptionBegin([sv EXCEPT !.ac = ac1, !.ps = ps1], identity, throws)

\* abortTranscription up to its return or to the await inside cleanupTranscription
AbortTranscriptionBegin(sv, identity, throws) ==
  LET ab1 == IF identity \in DOMAIN sv.ac THEN sv.ab \cup {sv.ac[identity]} ELSE sv.ab
      ac1 == MapDelete(sv.ac, identity)
      ps1 == IF identity \in DOMAIN sv.ps
             THEN [sv.ps EXCEPT ![identity].isActive = FALSE]
             ELSE sv.ps
  IN CleanupTranscriptionBegin([sv EXCEPT !.ab = ab1, !.ac = ac1, !.ps = ps1],
                               identity, throws)

\* a setupTranscription that takes up the stream and the controller of the
\* call before it
CreateSessionReuses(sv, identity, s) ==
  LET old == IF s > 1 THEN s - 1 ELSE s
  IN [sv EXCEPT !.ac = MapSet(sv.ac, identity, old),
                !.ab = sv.ab \ {old},
                !.st[s].created = TRUE,
                !.ps[identity].sttStream = old,
                !.ps[identity].isActive = TRUE]

\* a setupTranscription that forgets line 54 (abortControllers.set)
CreateSessionNoToken(sv, identity, s) ==
  [sv EXCEPT !.st[s].created = TRUE,
             !.ps[identity].sttStream = s,
             !.ps[identity].isActive = TRUE]

\* setupTranscription, lines 52-81: new controller, new provider stream
CreateSession(sv, identity, s) ==
  [sv EXCEPT !.ac = MapSet(sv.ac, identity, s),
             !.st[s].created = TRUE,
             !.ps[identity].sttStream = s,
             !.ps[identity].isActive = TRUE]

\* setupTranscription, line 45
HasActiveTranscription(ps, identity) ==
  ps[identity].isActive /\ ps[identity].sttStream # NoStream

\* text.trim(): drop leading and trailing whitespace
RECURSIVE TrimStart(_)
TrimStart(text) ==
  IF text # <<>> /\ Head(text) = Space THEN TrimStart(Tail(text)) ELSE text

RECURSIVE TrimEnd(_)
TrimEnd(text) ==
  IF text # <<>> /\ text[Len(text)] = Space
  THEN TrimEnd(SubSeq(text, 1, Len(text) - 1))
  ELSE text

Trim(text) == TrimEnd(TrimStart(text))

\* handleTranscriptEvent, lines 180-182: the event is stored and published
IsStorable(event) == event.type = "final" /\ event.text # <<>> /\ Trim(event.text) # <<>>

\* a handleTranscriptEvent that publishes and stores nothing
HandleTranscriptEventNoStore(ps, identity, event, t) == ps

\* a handleTranscriptEvent that stores the entry twice
HandleTranscriptEventTwice(ps, identity, event, t) ==
  IF IsStorable(event)
  THEN AddTranscript(AddTranscript(ps, identity, event.text, TRUE, t),
                     identity, event.text, TRUE, t)
  ELSE ps

\* handleTranscriptEvent: the participant map after the call
HandleTranscriptEvent(ps, identity, event, t) ==
  IF IsStorable(event) THEN AddTranscript(ps, identity, event.text, TRUE, t) ELSE ps

\* publishTranscriptToFrontend: the payloads after the call
PublishTranscriptToFrontend(pub, roomSet, speaker, text, t) ==
  IF roomSet
  THEN Append(pub, [type |-> "transcript", speaker |-> speaker, text |-> text, timestamp |-> t])
  ELSE pub

\* processTranscriptEvents, lines 155-163: the loop stops on this event
ConsumerStops(ps, ab, shutting, identity, s) ==
  \/ s \in ab
  \/ shutting
  \/ identity \notin DOMAIN ps
  \/ ~ps[identity].isActive

\* processAudioFrames, lines 119-132: the loop stops on this frame
PumpStops(ab, shutting, st, s) ==
  \/ s \in ab
  \/ shutting
  \/ st[s].closeCalls > 0

\* the events a provider may deliver; k is the one character of a text that
\* is not whitespace, chosen fresh for every event that can be stored
ProviderEvents(k) ==
  { [type |-> "final", text |-> <<k>>],
    [type |-> "final", text |-> <<Space>>],
    [type |-> "final", text |-> <<>>],
    [type |-> "interim", text |-> <<k>>] }

\* error messages, as sequences of words; <<>> is an error without a message
QueueIsClosed == <<"Queue", "is", "closed">>

ErrorMessages ==
  { <<"Error:">> \o QueueIsClosed, <<"socket", "hang", "up">>, <<>> }

\* String.prototype.includes
Includes(text, part) ==
  \E k \in 0..(Len(text) - Len(part)) : SubSeq(text, k + 1, k + Len(part)) = part

\* the uncaughtException and unhandledRejection handlers: the error is one
\* that is expected during cleanup
IsExpectedDuringCleanup(message) == Includes(message, QueueIsClosed)

\* the 'error' listener of the STT instance, line 72: the error is ignored
SttErrorIgnored(shutting, ab, s) == shutting \/ s \in ab

\* a line of the log written by an error handler; session 0: none
Report(source, level, s, message) ==
  [source |-> source, level |-> level, session |-> s, message |-> message]

----------------------------------------------------------------------------
\* Initial state: the services right after construction (main, lines 23-25).

NewStream == [created |-> FALSE, closeCalls |-> 0]

Init ==
  /\ participantStates = EmptyMap
  /\ roomEvents = <<>>
  /\ now = 0
  /\ abortControllers = EmptyMap
  /\ aborted = {}
  /\ isShuttingDown = FALSE
  /\ room = FALSE
  /\ published = <<>>
  /\ sttStreams = [s \in Sessions |-> NewStream]
  /\ setup = [s \in Sessions |-> [pc |-> "idle", identity |-> "a"]]
  /\ consumer = [s \in Sessions |-> "none"]
  /\ aborts = [k \in AbortCalls |-> [pc |-> "idle", identity |-> "a"]]
  /\ shutdownCall = [pc |-> "idle", todo |-> <<>>]
  /\ cleanupLog = [i \in Identities |-> 0]
  /\ startedDuring = {}
  /\ exports = <<>>
  /\ arrivals = <<>>
  /\ reports = {}

Commit(sv) ==
  /\ participantStates' = sv.ps
  /\ abortControllers' = sv.ac
  /\ aborted' = sv.ab
  /\ sttStreams' = sv.st
  /\ cleanupLog' = sv.log

\* the abortTranscription calls of an identity that wait in cleanup's delay(50)
WaitingAborts(identity) ==
  {<<"setup", s>> : s \in {x \in Sessions :
      setup[x].pc = "abortGrace" /\ setup[x].identity = identity}}
  \cup {<<"abort", k>> : k \in {x \in AbortCalls :
      aborts[x].pc = "grace" /\ aborts[x].identity = identity}}
  \cup (IF shutdownCall.pc = "grace" /\ Head(shutdownCall.todo) = identity
        THEN {<<"shutdown", 0>>} ELSE {})

----------------------------------------------------------------------------
\* RoomService callbacks on the store

\* RoomEvent.ParticipantConnected -> StorageService.addParticipant
AddParticipant(identity, name) ==
  /\ participantStates' = AddParticipantState(participantStates, identity, name, now)
  /\ roomEvents' = Append(roomEvents, RoomEventRecord("join", identity, name, now))
  /\ arrivals' = Append(arrivals, RoomItem(RoomEventRecord("join", identity, name, now)))
  /\ UNCHANGED <<abortControllers, aborted, sttStreams, cleanupLog>>
  /\ UNCHANGED <<now, isShuttingDown, room, published, exports, reports, taskVars>>

\* RoomEvent.ParticipantDisconnected -> StorageService.markParticipantLeft
MarkParticipantLeft(identity, name) ==
  /\ participantStates' = MarkParticipantLeftState(participantStates, identity, now)
  /\ roomEvents' = Append(roomEvents, RoomEventRecord("leave", identity, name, now))
  /\ arrivals' = Append(arrivals, RoomItem(RoomEventRecord("leave", identity, name, now)))
  /\ UNCHANGED <<abortControllers, aborted, sttStreams, cleanupLog>>
  /\ UNCHANGED <<now, isShuttingDown, room, published, exports, reports, taskVars>>

\* StorageService.addTranscript called with any arguments
AddTranscriptCalled(identity, text, isFinal) ==
  /\ participantStates' = AddTranscript(participantStates, identity, text, isFinal, now)
  /\ arrivals' = IF identity \in DOMAIN participantStates
                 THEN Append(arrivals, TranscriptItem(
                        TranscriptEntry(identity, participantStates[identity].name,
                                        text, isFinal, now)))
                 ELSE arrivals
  /\ UNCHANGED <<abortControllers, aborted, sttStreams, cleanupLog>>
  /\ UNCHANGED <<roomEvents, now, isShuttingDown, room, published, exports, reports, taskVars>>

\* StorageService.exportTranscript, to the await of fs.writeFile
ExportTranscript ==
  /\ exports' = Append(exports, ExportTranscriptResult(participantStates, roomEvents))
  /\ UNCHANGED <<sessionVars, roomEvents, now, isShuttingDown, room, published>>
  /\ UNCHANGED <<arrivals, reports>>

\* RoomEvent.Disconnected -> StorageService.exportTranscript
RoomDisconnected ==
  /\ Len(exports) < MaxExports
  /\ ExportTranscript
  /\ UNCHANGED taskVars

\* the clock advances
Tick ==
  /\ now' = now + 1
  /\ UNCHANGED <<sessionVars, roomEvents, isShuttingDown, room, published>>
  /\ UNCHANGED <<exports, arrivals, reports, taskVars>>

\* TranscriptionService.setRoom
SetRoom ==
  /\ ~room
  /\ room' = TRUE
  /\ UNCHANGED <<sessionVars, roomEvents, now, isShuttingDown, published, taskVars>>
  /\ UNCHANGED <<exports, arrivals, reports>>

----------------------------------------------------------------------------
\* setupTranscription (RoomEvent.TrackSubscribed)

\* the new session of call s: lines 52-86, up to the first await of the pump
StartSession(s, identity) ==
  /\ Commit(CreateSession(ServiceState, identity, s))
  /\ consumer' = [consumer EXCEPT ![s] = "wait"]
  /\ startedDuring' = startedDuring \cup WaitingAborts(identity)

\* a setupTranscription that forgets lines 38-42 and 45-50: it makes a state
\* for a participant it does not know and opens the session at once
SetupTranscriptionCreatesState(s, identity, throws) ==
  /\ setup[s].pc = "idle"
  /\ \A x \in 1..(s - 1) : setup[x].pc # "idle"
  /\ ~throws
  /\ Commit(CreateSession(
       [ServiceState EXCEPT !.ps = IF identity \in DOMAIN @ THEN @
                                   ELSE MapSet(@, identity, NewParticipantState(identity, now))],
       identity, s))
  /\ setup' = [setup EXCEPT ![s] = [pc |-> "pump", identity |-> identity]]
  /\ consumer' = [consumer EXCEPT ![s] = "wait"]
  /\ UNCHANGED <<otherVars, aborts, shutdownCall, startedDuring>>

\* from the call to the first suspension: no state -> return; an active
\* transcription -> abortTranscription; otherwise the session is created
SetupTranscription(s, identity, throws) ==
  /\ setup[s].pc = "idle"
  /\ \A x \in 1..(s - 1) : setup[x].pc # "idle"
  /\ throws => CloseMayThrow(ServiceState, identity)
  /\ IF identity \notin DOMAIN participantStates
     THEN /\ ~throws
          /\ setup' = [setup EXCEPT ![s] = [pc |-> "done", identity |-> identity]]
          /\ UNCHANGED <<sessionVars, consumer, startedDuring>>
     ELSE IF HasActiveTranscription(participantStates, identity)
     THEN LET r == AbortTranscriptionBegin(ServiceState, identity, throws)
          IN /\ Commit(r.sv)
             /\ setup' = [setup EXCEPT ![s] =
                  [pc |-> IF r.wait THEN "abortGrace" ELSE "rejoinWait",
                   identity |-> identity]]
             /\ UNCHANGED <<consumer, startedDuring>>
     ELSE /\ ~throws
          /\ setup' = [setup EXCEPT ![s] = [pc |-> "pump", identity |-> identity]]
          /\ StartSession(s, identity)
  /\ UNCHANGED <<otherVars, aborts, shutdownCall>>

\* the delay(50) of the abort's cleanup ends: cleanup and abort return,
\* setupTranscription goes on to delay(300)
SetupAbortReturns(s) ==
  /\ setup[s].pc = "abortGrace"
  /\ Commit(CleanupTranscriptionResume(ServiceState, setup[s].identity))
  /\ setup' = [setup EXCEPT ![s].pc = "rejoinWait"]
  /\ startedDuring' = startedDuring \ {<<"setup", s>>}
  /\ UNCHANGED <<otherVars, consumer, aborts, shutdownCall>>

\* delay(300) ends: the session is created
SetupRejoinWaitEnds(s) ==
  /\ setup[s].pc = "rejoinWait"
  /\ setup' = [setup EXCEPT ![s].pc = "pump"]
  /\ StartSession(s, setup[s].identity)
  /\ UNCHANGED <<otherVars, aborts, shutdownCall>>

\* a setupTranscription without its finally block: the call returns when the
\* pump ends
SetupFinallySkipsCleanup(s, throws) ==
  /\ ~throws
  /\ setup' = [setup EXCEPT ![s].pc = "done"]
  /\ UNCHANGED sessionVars

\* the finally block of setupTranscription: cleanupTranscription to its first
\* suspension or to its return
SetupFinally(s, throws) ==
  LET r == CleanupTranscriptionBegin(ServiceState, setup[s].identity, throws)
  IN /\ throws => CloseMayThrow(ServiceState, setup[s].identity)
     /\ Commit(r.sv)
     /\ setup' = [setup EXCEPT ![s].pc = IF r.wait THEN "finallyGrace" ELSE "done"]

\* processAudioFrames: the next audio frame arrives
AudioFrame(s, throws) ==
  /\ setup[s].pc = "pump"
  /\ IF PumpStops(aborted, isShuttingDown, sttStreams, s)
     THEN SetupFinally(s, throws)
     ELSE /\ ~throws
          /\ UNCHANGED <<sessionVars, setup>>
  /\ UNCHANGED <<otherVars, consumer, aborts, shutdownCall, startedDuring>>

\* processAudioFrames: the audio source ends or fails
AudioEnds(s, throws) ==
  /\ setup[s].pc = "pump"
  /\ SetupFinally(s, throws)
  /\ UNCHANGED <<otherVars, consumer, aborts, shutdownCall, startedDuring>>

\* the delay(50) of the finally block's cleanup ends: setupTranscription returns
SetupFinallyReturns(s) ==
  /\ setup[s].pc = "finallyGrace"
  /\ Commit(CleanupTranscriptionResume(ServiceState, setup[s].identity))
  /\ setup' = [setup EXCEPT ![s].pc = "done"]
  /\ UNCHANGED <<otherVars, consumer, aborts, shutdownCall, startedDuring>>

----------------------------------------------------------------------------
\* processTranscriptEvents

\* transcript entries in the store, over all participants
StoredTranscripts == SumLen(participantStates, DOMAIN participantStates)

\* the provider stream of call s delivers its next event
ProviderEvent(s, event) ==
  LET identity == setup[s].identity
  IN /\ consumer[s] = "wait"
     /\ StoredTranscripts < MaxTranscripts
     /\ event \in ProviderEvents(StoredTranscripts + 1)
     /\ IF ConsumerStops(participantStates, aborted, isShuttingDown, identity, s)
        THEN /\ consumer' = [consumer EXCEPT ![s] = "done"]
             /\ UNCHANGED <<participantStates, published, arrivals>>
        ELSE /\ participantStates' = HandleTranscriptEvent(participantStates, identity, event, now)
             /\ published' = IF IsStorable(event)
                             THEN PublishTranscriptToFrontend(published, room,
                                    participantStates[identity].name, event.text, now)
                             ELSE published
             /\ arrivals' = IF IsStorable(event)
                            THEN Append(arrivals, TranscriptItem(
                                   TranscriptEntry(identity, participantStates[identity].name,
                                                   event.text, TRUE, now)))
                            ELSE arrivals
             /\ UNCHANGED consumer
     /\ UNCHANGED <<abortControllers, aborted, sttStreams, cleanupLog>>
     /\ UNCHANGED <<roomEvents, now, isShuttingDown, room, exports, reports>>
     /\ UNCHANGED <<setup, aborts, shutdownCall, startedDuring>>

\* the provider stream of call s ends or fails
ProviderEnds(s) ==
  /\ consumer[s] = "wait"
  /\ consumer' = [consumer EXCEPT ![s] = "done"]
  /\ UNCHANGED <<sessionVars, otherVars, setup, aborts, shutdownCall, startedDuring>>

----------------------------------------------------------------------------
\* abortTranscription called directly

AbortTranscription(k, identity, throws) ==
  LET r == AbortTranscriptionBegin(ServiceState, identity, throws)
  IN /\ aborts[k].pc = "idle"
     /\ \A x \in 1..(k - 1) : aborts[x].pc # "idle"
     /\ throws => CloseMayThrow(ServiceState, identity)
     /\ Commit(r.sv)
     /\ aborts' = [aborts EXCEPT ![k] = [pc |-> IF r.wait THEN "grace" ELSE "done",
                                         identity |-> identity]]
     /\ UNCHANGED <<otherVars, setup, consumer, shutdownCall, startedDuring>>

AbortReturns(k) ==
  /\ aborts[k].pc = "grace"
  /\ Commit(CleanupTranscriptionResume(ServiceState, aborts[k].identity))
  /\ aborts' = [aborts EXCEPT ![k].pc = "done"]
  /\ startedDuring' = startedDuring \ {<<"abort", k>>}
  /\ UNCHANGED <<otherVars, setup, consumer, shutdownCall>>

----------------------------------------------------------------------------
\* shutdown

\* the orders in which Array.from(abortControllers.keys()) may list a key set
RECURSIVE Orders(_)
Orders(S) ==
  IF S = {} THEN {<<>>}
  ELSE UNION {{<<x>> \o o : o \in Orders(S \ {x})} : x \in S}

\* lines 282-286: the flag, the snapshot of the identities to abort
Shutdown(order) ==
  /\ shutdownCall.pc = "idle"
  /\ order \in Orders(DOMAIN abortControllers)
  /\ isShuttingDown' = TRUE
  /\ shutdownCall' = [pc |-> IF order = <<>> THEN "done" ELSE "loop", todo |-> order]
  /\ UNCHANGED <<sessionVars, roomEvents, now, room, published, exports, arrivals, reports>>
  /\ UNCHANGED <<setup, consumer, aborts, startedDuring>>

\* one turn of the loop, to the return or the suspension of abortTranscription
ShutdownAbort(throws) ==
  LET identity == Head(shutdownCall.todo)
      r == AbortTranscriptionBegin(ServiceState, identity, throws)
  IN /\ shutdownCall.pc = "loop"
     /\ throws => CloseMayThrow(ServiceState, identity)
     /\ Commit(r.sv)
     /\ shutdownCall' =
          IF r.wait THEN [shutdownCall EXCEPT !.pc = "grace"]
          ELSE [pc |-> IF Len(shutdownCall.todo) = 1 THEN "done" ELSE "loop",
                todo |-> Tail(shutdownCall.todo)]
     /\ UNCHANGED <<otherVars, setup, consumer, aborts, startedDuring>>

ShutdownAbortReturns ==
  /\ shutdownCall.pc = "grace"
  /\ Commit(CleanupTranscriptionResume(ServiceState, Head(shutdownCall.todo)))
  /\ shutdownCall' = [pc |-> IF Len(shutdownCall.todo) = 1 THEN "done" ELSE "loop",
                      todo |-> Tail(shutdownCall.todo)]
  /\ startedDuring' = startedDuring \ {<<"shutdown", 0>>}
  /\ UNCHANGED <<otherVars, setup, consumer, aborts>>

----------------------------------------------------------------------------
\* The SIGINT handler (setupGracefulShutdown).  Its first run is Shutdown; the
\* run in which shutdown() returns goes on to call roomService.disconnect()
\* and waits for it at position "done".

\* disconnect() has returned: storageService.exportTranscript() is called
SigintExport ==
  /\ shutdownCall.pc = "done"
  /\ ExportTranscript
  /\ shutdownCall' = [shutdownCall EXCEPT !.pc = "export"]
  /\ UNCHANGED <<setup, consumer, aborts, startedDuring>>

\* the file is written or the write failed: process.exit
SigintExit ==
  /\ shutdownCall.pc = "export"
  /\ shutdownCall' = [shutdownCall EXCEPT !.pc = "exit"]
  /\ UNCHANGED <<sessionVars, otherVars, setup, consumer, aborts, startedDuring>>

\* the process has not exited
Running == shutdownCall.pc # "exit"

----------------------------------------------------------------------------
\* Error handlers

\* the STT instance of call s emits 'error' (the listener of lines 70-76)
ProviderError(s, message) ==
  /\ sttStreams[s].created
  /\ reports' = IF SttErrorIgnored(isShuttingDown, aborted, s)
                THEN reports
                ELSE reports \cup {Report("stt", "warn", s, message)}
  /\ UNCHANGED <<sessionVars, roomEvents, now, isShuttingDown, room, published>>
  /\ UNCHANGED <<exports, arrivals, taskVars>>

\* an error reaches the process: the uncaughtException handler, and in the
\* same way the unhandledRejection handler.  process.exit(1) ends the process.
UncaughtError(message) ==
  /\ Running
  /\ IF IsExpectedDuringCleanup(message)
     THEN /\ reports' = reports \cup {Report("process", "warn", 0, message)}
          /\ UNCHANGED shutdownCall
     ELSE /\ reports' = reports \cup {Report("process", "error", 0, message)}
          /\ shutdownCall' = [shutdownCall EXCEPT !.pc = "exit"]
  /\ UNCHANGED <<sessionVars, roomEvents, now, isShuttingDown, room, published>>
  /\ UNCHANGED <<exports, arrivals, setup, consumer, aborts, startedDuring>>

----------------------------------------------------------------------------

\* RoomEvent.ParticipantConnected of a participant not seen before.  A later
\* ParticipantConnected of the same identity writes name, joinedAt, leftAt and
\* roomEvents only, which no method of TranscriptionService reads.
ParticipantConnected(identity) ==
  /\ identity \notin DOMAIN participantStates
  /\ AddParticipant(identity, identity)

\* the steps of setupTranscription call s, made for one of the participants ids
SessionStep(s, ids) ==
  \/ \E i \in ids, th \in BOOLEAN : SetupTranscription(s, i, th)
  \/ SetupAbortReturns(s)
  \/ SetupRejoinWaitEnds(s)
  \/ \E th \in BOOLEAN : AudioFrame(s, th)
  \/ \E th \in BOOLEAN : AudioEnds(s, th)
  \/ SetupFinallyReturns(s)
  \/ \E e \in ProviderEvents(StoredTranscripts + 1) : ProviderEvent(s, e)
  \/ ProviderEnds(s)

\* abortTranscription called directly, for any identity
DirectAbort ==
  \/ \E k \in AbortCalls, i \in Identities, th \in BOOLEAN : AbortTranscription(k, i, th)
  \/ \E k \in AbortCalls : AbortReturns(k)

\* One participant whose audio track is subscribed up to MaxSetups times.
Next ==
  \/ ParticipantConnected("a")
  \/ \E s \in SetupCalls : SessionStep(s, {"a"})

Spec == Init /\ [][Next]_vars

\* One participant whose audio track is subscribed up to MaxRejoins times.
NextRejoin ==
  \/ ParticipantConnected("a")
  \/ \E s \in RejoinCalls : SessionStep(s, {"a"})

SpecRejoin == Init /\ [][NextRejoin]_vars

\* Two subscriptions, the first of a's audio track, the second of b's or again
\* of a's, and direct calls of abortTranscription.
NextPair ==
  \/ \E i \in Identities : ParticipantConnected(i)
  \/ SessionStep(1, {"a"})
  \/ SessionStep(2, Identities)
  \/ DirectAbort

SpecPair == Init /\ [][NextPair]_vars

\* something was recorded at the present instant of the clock
RecordedNow == \E k \in 1..Len(arrivals) : arrivals[k].data.timestamp = now

\* The callbacks and calls that record something in the store.  The room
\* delivers callbacks until it is disconnected, which is when the transcript
\* is exported.
StoreCall(ids, names) ==
  \/ \E i \in ids, n \in names :
       /\ exports = <<>>
       /\ Len(roomEvents) < MaxRoomEvents
       /\ AddParticipant(i, n)
  \/ \E i \in ids, n \in names :
       /\ exports = <<>>
       /\ Len(roomEvents) < MaxRoomEvents
       /\ MarkParticipantLeft(i, n)
  \/ \E i \in ids, f \in BOOLEAN :
       /\ exports = <<>>
       /\ StoredTranscripts < MaxTranscripts
       /\ AddTranscriptCalled(i, <<StoredTranscripts + 1>>, f)

\* The store of two participants, driven through its methods; several calls
\* may read the same instant of the clock.
NextStore ==
  \/ Len(arrivals) < MaxStoreCalls /\ StoreCall(Identities, DisplayNames)
  \/ RoomDisconnected
  \/ now < MaxClock /\ exports = <<>> /\ Tick

SpecStore == Init /\ [][NextStore]_vars

\* The store of one participant; every call reads a later instant of the clock
\* than the call before.
NextTimeline ==
  \/ ~RecordedNow /\ StoreCall({"a"}, {"alice"})
  \/ RoomDisconnected
  \/ RecordedNow /\ exports = <<>> /\ Tick

SpecTimeline == Init /\ [][NextTimeline]_vars

\* the steps of a setupTranscription call that finds no transcription to abort
FirstSessionStep(s, identity) ==
  \/ \E th \in BOOLEAN : SetupTranscription(s, identity, th)
  \/ \E th \in BOOLEAN : AudioFrame(s, th)
  \/ \E th \in BOOLEAN : AudioEnds(s, th)
  \/ SetupFinallyReturns(s)
  \/ \E e \in ProviderEvents(StoredTranscripts + 1) : ProviderEvent(s, e)
  \/ ProviderEnds(s)

\* One participant whose audio track is subscribed once, while participants
\* join, rejoin under another display name, and leave; every join and leave
\* reads a later instant of the clock than whatever was recorded before.
NextRoom ==
  \/ \E i \in Identities, n \in DisplayNames :
       ~RecordedNow /\ Len(arrivals) < MaxStoreCalls /\ AddParticipant(i, n)
  \/ \E i \in Identities, n \in DisplayNames :
       ~RecordedNow /\ Len(arrivals) < MaxStoreCalls /\ MarkParticipantLeft(i, n)
  \/ FirstSessionStep(1, "a")
  \/ RecordedNow /\ Len(arrivals) < MaxStoreCalls /\ Tick

SpecRoom == Init /\ [][NextRoom]_vars

\* the steps of the SIGINT handler
SigintStep ==
  \/ \E o \in Orders(DOMAIN abortControllers) : Shutdown(o)
  \/ \E th \in BOOLEAN : ShutdownAbort(th)
  \/ ShutdownAbortReturns
  \/ SigintExport
  \/ SigintExit

\* Two subscriptions as in NextPair, a termination signal at any moment, and
\* the room disconnecting at any moment; nothing runs after process.exit.
NextShutdown ==
  \/ \E i \in Identities : Running /\ ParticipantConnected(i)
  \/ Running /\ SessionStep(1, {"a"})
  \/ Running /\ SessionStep(2, Identities)
  \/ Running /\ RoomDisconnected
  \/ SigintStep

SpecShutdown == Init /\ [][NextShutdown]_vars

\* One participant whose audio track is subscribed once, errors that reach
\* the process at any moment, a termination signal at any moment and the room
\* disconnecting at any moment; nothing runs after process.exit.
NextFatal ==
  \/ Running /\ ParticipantConnected("a")
  \/ Running /\ FirstSessionStep(1, "a")
  \/ \E m \in ErrorMessages : UncaughtError(m)
  \/ Running /\ RoomDisconnected
  \/ SigintStep

SpecFatal == Init /\ [][NextFatal]_vars

\* Two subscriptions, the first of a's audio track, the second of b's or again
\* of a's, and STT instances that emit errors.
NextErrors ==
  \/ \E i \in Identities : ParticipantConnected(i)
  \/ SessionStep(1, {"a"})
  \/ SessionStep(2, Identities)
  \/ \E s \in {1, 2} : ProviderError(s, <<"socket", "hang", "up">>)

SpecErrors == Init /\ [][NextErrors]_vars

\* the timers of call s: the delay(50) and delay(300) it waits in end
Timers(s) ==
  \/ SetupAbortReturns(s)
  \/ SetupRejoinWaitEnds(s)
  \/ SetupFinallyReturns(s)

\* the provider stream of call s, once closed, ends
ClosedStreamEnds(s) == sttStreams[s].closeCalls > 0 /\ ProviderEnds(s)

\* Spec with the scheduling the event loop gives: a timer that was set fires,
\* and the iteration over a closed provider stream ends.
SpecFair ==
  /\ Spec
  /\ \A s \in SetupCalls : WF_vars(Timers(s)) /\ WF_vars(ClosedStreamEnds(s))

\* One participant as in Next, in an agent that hands the room to the
\* transcription service (setRoom).
NextPublish ==
  \/ Next
  \/ SetRoom

SpecPublish == Init /\ [][NextPublish]_vars

\* One participant as in Next, who also leaves
\* (RoomEvent.ParticipantDisconnected); timers that were set fire.
NextDepart ==
  \/ Next
  \/ /\ "a" \in DOMAIN participantStates
     /\ participantStates["a"].leftAt = <<>>
     /\ MarkParticipantLeft("a", "a")

SpecDepart ==
  /\ Init /\ [][NextDepart]_vars
  /\ \A s \in SetupCalls : WF_vars(Timers(s))

\* One participant and every operation on the store and on its session: a join
\* as alice and rejoins as bob, leaves, one subscription of the
\* audio track, the room disconnecting and the termination signal, whose
\* shutdown aborts the session; nothing runs after process.exit.
NextLifetime ==
  \/ /\ Running /\ Len(roomEvents) < MaxRoomEvents
     /\ AddParticipant("a", IF "a" \in DOMAIN participantStates THEN "bob" ELSE "alice")
  \/ /\ Running /\ Len(roomEvents) < MaxRoomEvents
     /\ "a" \in DOMAIN participantStates
     /\ participantStates["a"].leftAt = <<>>
     /\ MarkParticipantLeft("a", participantStates["a"].name)
  \/ Running /\ FirstSessionStep(1, "a")
  \/ Running /\ RoomDisconnected
  \/ SigintStep

SpecLifetime == Init /\ [][NextLifetime]_vars

\* One participant whose audio track is subscribed once, and the termination
\* signal at any moment; the room stays connected until the SIGINT handler
\* disconnects it, and room.disconnect() may then deliver RoomEvent.Disconnected
\* before it returns.
NextSigint ==
  \/ Running /\ ParticipantConnected("a")
  \/ Running /\ FirstSessionStep(1, "a")
  \/ shutdownCall.pc = "done" /\ RoomDisconnected
  \/ SigintStep

SpecSigint == Init /\ [][NextSigint]_vars

----------------------------------------------------------------------------
\* Vocabulary of the properties

\* the calls of cleanupTranscription for an identity that wait in delay(50)
CleanupsWaiting(identity) ==
  WaitingAborts(identity)
  \cup {<<"finally", s>> : s \in {x \in Sessions :
          setup[x].pc = "finallyGrace" /\ setup[x].identity = identity}}

\* call s has opened its provider stream
Created(s) == sttStreams[s].created

\* the sessions opened for an identity
SessionsOf(identity) == {s \in Sessions : Created(s) /\ setup[s].identity = identity}

\* session s is live: its stream was opened and never closed, its token is not
\* cancelled, its pump and its consumer are both running
Live(s) ==
  /\ Created(s)
  /\ sttStreams[s].closeCalls = 0
  /\ s \notin aborted
  /\ setup[s].pc = "pump"
  /\ consumer[s] = "wait"

\* session s has been retired: its token is cancelled, or a teardown has closed
\* its stream, or its own finally block has run cleanup
Retired(s) ==
  /\ Created(s)
  /\ \/ s \in aborted
     \/ sttStreams[s].closeCalls > 0
     \/ setup[s].pc \in {"finallyGrace", "done"}

\* this step opens the session of call s
Starts(s) == ~sttStreams[s].created /\ sttStreams'[s].created

\* the identity has no session: no state, or neither flag, handle nor token
NoSession(identity) ==
  /\ identity \notin DOMAIN abortControllers
  /\ identity \in DOMAIN participantStates =>
       /\ ~participantStates[identity].isActive
       /\ participantStates[identity].sttStream = NoStream

----------------------------------------------------------------------------
\* C1: for every identity, at most one session is live at any time.
AtMostOneLiveSession ==
  \A s1, s2 \in Sessions :
    (Live(s1) /\ Live(s2) /\ setup[s1].identity = setup[s2].identity) => s1 = s2

\* C2: when a session is started, every earlier session of the identity has been
\* torn down completely: its stream closed, no cleanup still in its grace wait,
\* the handle released and the token removed.
TeardownComplete(identity) ==
  /\ participantStates[identity].sttStream = NoStream
  /\ identity \notin DOMAIN abortControllers
  /\ CleanupsWaiting(identity) = {}
  /\ \A s \in SessionsOf(identity) : sttStreams[s].closeCalls > 0

RetiredBeforeReplaced ==
  [][\A s \in Sessions : Starts(s) => TeardownComplete(setup'[s].identity)]_vars

Applies(s) ==
  \E e \in ProviderEvents(StoredTranscripts + 1) :
    /\ ProviderEvent(s, e)
    /\ participantStates' # participantStates \/ published' # published

\* C4: no event of a retired session's stream is stored or published.
RetiredSessionNeverApplies ==
  [][\A s \in Sessions : Retired(s) => ~Applies(s)]_vars

\* this step belongs to a call of abortTranscription(identity): a direct call, or
\* the call setupTranscription makes when the participant rejoins
AbortActs(identity) ==
  \/ \E k \in AbortCalls : aborts'[k] # aborts[k] /\ aborts'[k].identity = identity
  \/ \E s \in Sessions :
       /\ setup'[s].identity = identity
       /\ setup[s].pc \in {"idle", "abortGrace"}
       /\ setup'[s].pc \in {"abortGrace", "rejoinWait"}
       /\ setup'[s].pc # setup[s].pc

\* nothing of the identity is touched by this step: state, token, streams
Untouched(identity) ==
  /\ (identity \in DOMAIN participantStates') = (identity \in DOMAIN participantStates)
  /\ identity \in DOMAIN participantStates =>
       participantStates'[identity] = participantStates[identity]
  /\ (identity \in DOMAIN abortControllers') = (identity \in DOMAIN abortControllers)
  /\ identity \in DOMAIN abortControllers =>
       abortControllers'[identity] = abortControllers[identity]
  /\ \A s \in SessionsOf(identity) :
       /\ sttStreams'[s] = sttStreams[s]
       /\ (s \in aborted') = (s \in aborted)

\* C5: abortTranscription(i) leaves every other identity's flag, handle, token,
\* transcripts and stream as they were.
AbortLeavesOthersAlone ==
  [][\A i, j \in Identities : (i # j /\ AbortActs(i)) => Untouched(j)]_vars

\* C5 witness: abortTranscription(a) waits in its cleanup while b's session is active
WitnessAbortBesideActive ==
  /\ \E k \in AbortCalls : aborts[k].pc = "grace" /\ aborts[k].identity = "a"
  /\ "b" \in DOMAIN participantStates
  /\ participantStates["b"].isActive
  /\ participantStates["b"].sttStream = 2
  /\ "b" \in DOMAIN abortControllers

\* C6: however often cleanup runs for an identity, it logs its completion once
\* per session torn down.  (Where only setupTranscription calls cleanup, every
\* run that logs tears down a session that was opened before.)
CleanupLoggedOnce ==
  \A i \in Identities : cleanupLog[i] <= Cardinality(SessionsOf(i))

\* C7: close() is invoked at most once on every provider stream.
ClosedAtMostOnce ==
  \A s \in Sessions : sttStreams[s].closeCalls <= 1

\* C8: the session handle is set only if isActive is true.
HandleOnlyIfActive ==
  \A i \in DOMAIN participantStates :
    participantStates[i].sttStream # NoStream => participantStates[i].isActive

\* C8, amended: the session handle is set only if isActive is true or a
\* cleanupTranscription of the identity is inside its grace delay.
HandleOnlyIfActiveOrInTeardown ==
  \A i \in DOMAIN participantStates :
    participantStates[i].sttStream # NoStream =>
      participantStates[i].isActive \/ CleanupsWaiting(i) # {}

\* C8 witness: inside the grace delay the handle is set and isActive is false
WitnessHandleInGrace ==
  \E i \in DOMAIN participantStates :
    /\ participantStates[i].sttStream # NoStream
    /\ ~participantStates[i].isActive
    /\ CleanupsWaiting(i) # {}

\* the state abortTranscription(identity) leaves, in the state after the step
Aborted(identity) ==
  /\ identity \notin DOMAIN abortControllers'
  /\ identity \in DOMAIN participantStates' =>
       /\ ~participantStates'[identity].isActive
       /\ participantStates'[identity].sttStream = NoStream

\* what the first run of abortTranscription(identity) does, the call returning
\* in this step (returns) or not
AbortBeginsRight(identity, returns) ==
  /\ identity \in DOMAIN abortControllers => abortControllers[identity] \in aborted'
  /\ identity \notin DOMAIN abortControllers'
  /\ NoSession(identity) =>
       /\ returns
       /\ UNCHANGED <<participantStates, abortControllers, aborted, sttStreams>>

\* C9: abortTranscription cancels and removes the token; when it returns and no
\* session was started for the identity meanwhile, isActive is false and the
\* handle is released; with no session it changes nothing and returns at once.
AbortContract ==
  [][/\ \A k \in AbortCalls :
          /\ (aborts[k].pc = "idle" /\ aborts'[k].pc # "idle") =>
               AbortBeginsRight(aborts'[k].identity, aborts'[k].pc = "done")
          /\ (aborts[k].pc # "done" /\ aborts'[k].pc = "done"
                /\ <<"abort", k>> \notin startedDuring) =>
               Aborted(aborts'[k].identity)
     /\ \A s \in Sessions :
          /\ (setup[s].pc = "idle" /\ setup'[s].pc \in {"abortGrace", "rejoinWait"}) =>
               AbortBeginsRight(setup'[s].identity, setup'[s].pc = "rejoinWait")
          /\ (setup[s].pc \in {"idle", "abortGrace"} /\ setup'[s].pc = "rejoinWait"
                /\ <<"setup", s>> \notin startedDuring) =>
               Aborted(setup'[s].identity)
    ]_vars

\* C9 witness: a direct abortTranscription(a) has returned after its grace delay
\* and has retired session 1
WitnessAbortReturned ==
  /\ \E k \in AbortCalls : aborts[k].pc = "done" /\ aborts[k].identity = "a"
  /\ 1 \in aborted
  /\ sttStreams[1].closeCalls = 1
  /\ ~participantStates["a"].isActive
  /\ participantStates["a"].sttStream = NoStream

\* C10: whether the identity had no session or had one that was aborted first, the
\* step that starts session s leaves isActive true, the fresh handle s, the fresh
\* uncancelled token s, pump and consumer running; and no step of a
\* setupTranscription call changes transcripts or room events.
StartReachesSameState ==
  [][\A s \in Sessions :
       /\ Starts(s) =>
            LET i == setup'[s].identity
            IN /\ participantStates'[i] =
                    [participantStates[i] EXCEPT !.isActive = TRUE, !.sttStream = s]
               /\ sttStreams'[s].closeCalls = 0
               /\ i \in DOMAIN abortControllers'
               /\ abortControllers'[i] = s
               /\ s \notin aborted'
               /\ setup'[s].pc = "pump"
               /\ consumer'[s] = "wait"
       /\ setup'[s] # setup[s] =>
            /\ roomEvents' = roomEvents
            /\ \A j \in DOMAIN participantStates :
                 participantStates'[j].transcripts = participantStates[j].transcripts
    ]_vars

\* C10 witness: session 2 was started after session 1 was aborted
WitnessStartedAfterAbort ==
  /\ 1 \in aborted
  /\ Created(2)
  /\ setup[2].pc = "pump"
  /\ participantStates["a"].isActive
  /\ participantStates["a"].sttStream = 2
  /\ abortControllers = [i \in {"a"} |-> 2]

----------------------------------------------------------------------------
\* Shutdown and export

\* this step is the return of shutdown()
ShutdownCompletes == shutdownCall.pc \in {"idle", "loop", "grace"} /\ shutdownCall'.pc = "done"

\* some participant's transcription is marked active
AnyActive == \E i \in DOMAIN participantStates : participantStates[i].isActive

\* C11: when shutdown() returns, no participant has isActive true or a session
\* handle, and no cancellation token is registered.
ShutdownLeavesNoSession ==
  [][ShutdownCompletes =>
       /\ \A i \in DOMAIN participantStates' :
            /\ ~participantStates'[i].isActive
            /\ participantStates'[i].sttStream = NoStream
       /\ DOMAIN abortControllers' = {}]_vars

\* this step is the export made by the SIGINT handler
SigintExports == shutdownCall.pc = "done" /\ shutdownCall'.pc = "export"

\* C12: the SIGINT handler exports only after the shutdown flag is set and
\* shutdown() has returned, and when it exports no session is active.
ExportAfterAllAborted ==
  [][SigintExports => (isShuttingDown /\ ~AnyActive)]_vars

----------------------------------------------------------------------------
\* The exported timeline

\* the timestamps of a timeline do not decrease
SortedByTime(timeline) ==
  \A m, n \in 1..Len(timeline) :
    m < n => timeline[m].data.timestamp <= timeline[n].data.timestamp

\* the number of times an item occurs in a sequence
Count(items, x) == Cardinality({k \in 1..Len(items) : items[k] = x})

\* two sequences hold the same items, each as often
SameItems(s1, s2) ==
  /\ Len(s1) = Len(s2)
  /\ \A k \in 1..Len(s1) : Count(s1, s1[k]) = Count(s2, s1[k])

\* this step hands a transcript to fs.writeFile
Exports == Len(exports') = Len(exports) + 1

\* the export made by this step
Exported == exports'[Len(exports')]

RECURSIVE AtTime(_, _)
AtTime(items, t) ==
  IF items = <<>> THEN <<>>
  ELSE IF Head(items).data.timestamp = t
       THEN <<Head(items)>> \o AtTime(Tail(items), t)
       ELSE AtTime(Tail(items), t)

\* C14: among the items with one timestamp, every export keeps the order in
\* which they were recorded.
TiesKeepArrivalOrder ==
  [][Exports => \A t \in 0..now : AtTime(Exported.timeline, t) = AtTime(arrivals, t)]_vars

\* join, final transcript, leave, join, final transcript of one participant, at
\* strictly increasing instants
RejoinScenario(items) ==
  /\ Len(items) = 5
  /\ \A k \in 1..5 : items[k].data.participantIdentity = "a"
  /\ \A k \in 1..4 : items[k].data.timestamp < items[k + 1].data.timestamp
  /\ \A k \in {1, 3, 4} : items[k].type = "room_event"
  /\ \A k \in {2, 5} : items[k].type = "transcript" /\ items[k].data.isFinal
  /\ items[1].data.type = "join"
  /\ items[3].data.type = "leave"
  /\ items[4].data.type = "join"

\* C15: after join, transcript, leave, rejoin, transcript at increasing instants
\* the export has exactly these five items, in this order, both transcripts
\* among them.
RejoinTimelineExported ==
  [][(Exports /\ RejoinScenario(arrivals)) =>
       /\ Exported.timeline = arrivals
       /\ Exported.lines = [k \in 1..5 |-> RenderItem(arrivals[k])]]_vars

\* C15 witness: the scenario was recorded and exported
WitnessRejoinExported ==
  /\ RejoinScenario(arrivals)
  /\ exports # <<>>
  /\ Len(exports[1].lines) = 5
  /\ Len(participantStates["a"].transcripts) = 2

\* C16: the body of an export is the no-activity marker exactly when the store
\* holds neither transcript entries nor room events; otherwise it has one line
\* for each of them, the line rendered from the item, and no marker.
MarkerOnlyWhenEmpty ==
  [][Exports =>
       LET n == StoredTranscripts + Len(roomEvents)
       IN /\ (Exported.lines = <<NoActivity>>) <=> (n = 0)
          /\ n > 0 =>
               /\ Len(Exported.lines) = n
               /\ \A k \in 1..n :
                    /\ Exported.lines[k] = RenderItem(Exported.timeline[k])
                    /\ Exported.lines[k] # NoActivity]_vars

\* C16 witness: an export of the empty store
WitnessEmptyExport ==
  /\ exports # <<>>
  /\ arrivals = <<>>
  /\ exports[1].lines = <<NoActivity>>

\* C17: every transcript item of an export is a final entry.
ExportHoldsOnlyFinalEntries ==
  \A n \in 1..Len(exports) :
    \A k \in 1..Len(exports[n].timeline) :
      exports[n].timeline[k].type = "transcript" => exports[n].timeline[k].data.isFinal

----------------------------------------------------------------------------
\* The methods of the store

\* this step is a call addParticipant(i, n)
JoinRecorded(i, n) ==
  arrivals' = Append(arrivals, RoomItem(RoomEventRecord("join", i, n, now)))

\* C18: addParticipant(i, n) makes the state of a participant it has not seen;
\* for a participant it knows it writes name, joinedAt and leftAt and nothing
\* else; it appends one join event; it leaves every other participant alone.
UpsertContract ==
  [][\A i \in Identities, n \in DisplayNames :
       JoinRecorded(i, n) =>
         /\ roomEvents' = Append(roomEvents, RoomEventRecord("join", i, n, now))
         /\ DOMAIN participantStates' = DOMAIN participantStates \cup {i}
         /\ \A j \in DOMAIN participantStates \ {i} :
              participantStates'[j] = participantStates[j]
         /\ IF i \in DOMAIN participantStates
            THEN participantStates'[i] =
                   [participantStates[i] EXCEPT !.name = n, !.joinedAt = now, !.leftAt = <<>>]
            ELSE participantStates'[i] =
                   [name |-> n, transcripts |-> <<>>, isActive |-> FALSE,
                    sttStream |-> NoStream, joinedAt |-> now, leftAt |-> <<>>]]_vars

\* C18 witness: a rejoins under another name at a later instant, after leaving,
\* while its first session is active
WitnessRejoinWhileActive ==
  /\ "a" \in DOMAIN participantStates
  /\ participantStates["a"].isActive
  /\ participantStates["a"].sttStream = 1
  /\ participantStates["a"].name = "bob"
  /\ participantStates["a"].joinedAt > 0
  /\ participantStates["a"].leftAt = <<>>
  /\ Len(roomEvents) = 3
  /\ roomEvents[1] = RoomEventRecord("join", "a", "alice", 0)
  /\ roomEvents[2].type = "leave"
  /\ roomEvents[3].type = "join"

\* this step is a call markParticipantLeft(i, n)
LeaveRecorded(i, n) ==
  arrivals' = Append(arrivals, RoomItem(RoomEventRecord("leave", i, n, now)))

\* C19: markParticipantLeft(i, n) appends one leave event; it sets leftAt of a
\* participant it knows and changes nothing else; it makes no state.
MarkLeftContract ==
  [][\A i \in Identities, n \in DisplayNames :
       LeaveRecorded(i, n) =>
         /\ roomEvents' = Append(roomEvents, RoomEventRecord("leave", i, n, now))
         /\ participantStates' =
              IF i \in DOMAIN participantStates
              THEN [participantStates EXCEPT ![i].leftAt = <<now>>]
              ELSE participantStates]_vars

\* C19 witness: a leave event of a participant the store has never seen, beside
\* a participant who left
WitnessUnknownLeft ==
  /\ "b" \notin DOMAIN participantStates
  /\ \E k \in 1..Len(roomEvents) :
       roomEvents[k].type = "leave" /\ roomEvents[k].participantIdentity = "b"
  /\ "a" \in DOMAIN participantStates
  /\ participantStates["a"].leftAt # <<>>

\* this step is a call addTranscript(i, text, f) for a participant the store knows
TranscriptRecorded(i, text, f) ==
  /\ i \in DOMAIN participantStates
  /\ arrivals' = Append(arrivals, TranscriptItem(
                    TranscriptEntry(i, participantStates[i].name, text, f, now)))

\* C20: addTranscript for an unknown identity returns the store as it is; for a
\* known identity it appends one entry with the participant's present name to
\* the end of that participant's transcripts and changes nothing else.
AppendContract ==
  [][/\ \A i \in Identities \ DOMAIN participantStates, f \in BOOLEAN :
          AddTranscript(participantStates, i, <<StoredTranscripts + 1>>, f, now)
            = participantStates
     /\ \A i \in Identities, f \in BOOLEAN :
          TranscriptRecorded(i, <<StoredTranscripts + 1>>, f) =>
            /\ participantStates' =
                 [participantStates EXCEPT ![i].transcripts =
                    Append(@, [timestamp |-> now, participantIdentity |-> i,
                               participantName |-> participantStates[i].name,
                               text |-> <<StoredTranscripts + 1>>, isFinal |-> f])]
            /\ roomEvents' = roomEvents]_vars

\* C20 witness: an entry stored under the name a participant took on rejoining
WitnessEntryUnderNewName ==
  /\ "a" \in DOMAIN participantStates
  /\ Len(roomEvents) = 2
  /\ roomEvents[1] = RoomEventRecord("join", "a", "alice", 0)
  /\ roomEvents[2].participantName = "bob"
  /\ Len(participantStates["a"].transcripts) = 1
  /\ participantStates["a"].transcripts[1].participantName = "bob"

----------------------------------------------------------------------------
\* Errors

\* the lines this step adds to the log of the error handlers
NewReports(source) == {r \in reports' \ reports : r.source = source}

\* a shutdown or a cancellation is in progress
CleanupInProgress == isShuttingDown \/ aborted # {}

\* C21: an error that reaches the process is logged as a warning exactly when
\* the shutdown flag is set or a session's token is cancelled; a closed-queue
\* error that arrives while neither is the case is reported as an error.
DowngradedOnlyDuringCleanup ==
  [][\A r \in NewReports("process") : (r.level = "warn") <=> CleanupInProgress]_vars

\* this step is an error handler's for session s
ErrorReported(s) == \E r \in NewReports("stt") : r.session = s

\* this step ends the pump of call s, or its consumer, or is its finally block
\* returning, or its STT instance reporting an error
SessionEnds(s) ==
  \/ setup[s].pc = "pump" /\ setup'[s].pc # "pump"
  \/ setup[s].pc = "finallyGrace" /\ setup'[s].pc # "finallyGrace"
  \/ consumer[s] = "wait" /\ consumer'[s] # "wait"
  \/ ErrorReported(s)

ProviderErrorAborts ==
  [][\A s \in Sessions : ErrorReported(s) =>
       /\ ~participantStates'[setup[s].identity].isActive
       /\ participantStates'[setup[s].identity].sttStream # s
       /\ \/ setup[s].identity \notin DOMAIN abortControllers'
          \/ abortControllers'[setup[s].identity] # s]_vars

\* this step is process.exit in the handler of an unexpected uncaught error
ExitsOnUncaughtError ==
  /\ shutdownCall'.pc = "exit"
  /\ \E r \in NewReports("process") : r.level = "error"

\* C24: the process exits on an unexpected uncaught error only after an export
\* of the timeline was attempted.
ExportBeforeFatalExit ==
  [][ExitsOnUncaughtError => exports' # <<>>]_vars

----------------------------------------------------------------------------
\* Two stores

\* the store after one more of the calls that record an item
ApplyItem(store, item) ==
  IF item.type = "transcript"
  THEN [ps |-> AddTranscript(store.ps, item.data.participantIdentity, item.data.text,
                             item.data.isFinal, item.data.timestamp),
        events |-> store.events]
  ELSE IF item.data.type = "join"
  THEN [ps |-> AddParticipantState(store.ps, item.data.participantIdentity,
                                   item.data.participantName, item.data.timestamp),
        events |-> Append(store.events, item.data)]
  ELSE [ps |-> MarkParticipantLeftState(store.ps, item.data.participantIdentity,
                                        item.data.timestamp),
        events |-> Append(store.events, item.data)]

\* the store after the calls that record these items, made in this order
RECURSIVE Replay(_)
Replay(items) ==
  IF items = <<>>
  THEN [ps |-> EmptyMap, events |-> <<>>]
  ELSE ApplyItem(Replay(SubSeq(items, 1, Len(items) - 1)), items[Len(items)])

\* the clock does not go back from one item to the next
TimeOrdered(items) ==
  \A k \in 1..(Len(items) - 1) : items[k].data.timestamp <= items[k + 1].data.timestamp

\* the two stores hold the same transcript entries and the same room events
SameContents(s1, s2) ==
  /\ DOMAIN s1.ps = DOMAIN s2.ps
  /\ \A i \in DOMAIN s1.ps : s1.ps[i].transcripts = s2.ps[i].transcripts
  /\ Len(s1.events) = Len(s2.events)
  /\ \A e \in {s1.events[k] : k \in 1..Len(s1.events)} :
       Cardinality({k \in 1..Len(s1.events) : s1.events[k] = e})
         = Cardinality({k \in 1..Len(s2.events) : s2.events[k] = e})

\* the stores that the recorded calls, made in another order, would have built
OtherStores ==
  {Replay([k \in 1..Len(arrivals) |-> arrivals[p[k]]]) :
     p \in {q \in Orders(1..Len(arrivals)) :
              TimeOrdered([k \in 1..Len(arrivals) |-> arrivals[q[k]]])}}

\* C25: a store that holds the same transcript entries and room events as this
\* one, with the same timestamps, but got its participants in another order,
\* exports the same body.
ExportIgnoresInsertionOrder ==
  \A other \in OtherStores :
    /\ SameContents(other, [ps |-> participantStates, events |-> roomEvents])
    /\ ParticipantOrder(other.events) # ParticipantOrder(roomEvents)
    => ExportBody(Timeline(other.ps, other.events))
         = ExportBody(Timeline(participantStates, roomEvents))

----------------------------------------------------------------------------
\* Teardown

\* this step ends the pump of call s and runs its finally block to the return
\* or to the suspension of cleanupTranscription
PumpEnds(s) == setup[s].pc = "pump" /\ setup'[s].pc # "pump"

\* session x has replaced session s: it was opened for the same identity and
\* the participant's handle is its stream
Replaces(x, s) ==
  /\ x # s
  /\ Created(x)
  /\ setup[x].identity = setup[s].identity
  /\ participantStates[setup[s].identity].sttStream = x

\* C26: when the pump of a session ends after the session was replaced, its
\* finally-block cleanup does not close the replacement's stream, does not
\* clear its handle, does not change isActive and does not remove its token.
LateCleanupSparesReplacement ==
  [][\A s, x \in Sessions :
       Created(s) /\ Replaces(x, s) /\ PumpEnds(s) =>
         LET i == setup[s].identity
         IN /\ sttStreams'[x] = sttStreams[x]
            /\ participantStates'[i].sttStream = x
            /\ participantStates'[i].isActive = participantStates[i].isActive
            /\ (i \in DOMAIN abortControllers /\ abortControllers[i] = x) =>
                 (i \in DOMAIN abortControllers' /\ abortControllers'[i] = x)]_vars

\* session s is torn down: the flag is false, the handle and the token are not its
TornDown(s) ==
  LET i == setup[s].identity
  IN /\ ~participantStates[i].isActive
     /\ participantStates[i].sttStream # s
     /\ i \notin DOMAIN abortControllers \/ abortControllers[i] # s

\* C27: when the consumer of a session has ended while its pump waits for audio
\* frames, the session is eventually torn down.
ConsumerEndTearsDown ==
  \A s \in SetupCalls :
    (consumer[s] = "done" /\ setup[s].pc = "pump") ~> (Created(s) /\ TornDown(s))

\* C28: once the token of a session is cancelled, its pump and its consumer
\* both eventually exit.
CancelledTasksExit ==
  \A s \in SetupCalls :
    (s \in aborted) ~> (setup[s].pc # "pump" /\ consumer[s] # "wait")

Releases(identity, h) ==
  /\ identity \in DOMAIN participantStates
  /\ participantStates[identity].sttStream = h
  /\ participantStates'[identity].sttStream = NoStream

\* C30: the handle of a stream is released only after close was invoked on that
\* stream, and the token is removed with it, also when close throws.
ReleasedAfterClose ==
  [][\A i \in Identities, h \in Sessions :
       Releases(i, h) =>
         /\ sttStreams'[h].closeCalls > 0
         /\ i \notin DOMAIN abortControllers']_vars

----------------------------------------------------------------------------
\* The life of a session

\* how far session s has come: 0 not created, 1 streaming, 2 retired (aborted
\* or ended), 3 cleaned up (retired, and neither the handle nor the token of
\* its identity is its own)
Phase(s) ==
  IF ~Created(s) THEN 0
  ELSE IF ~Retired(s) THEN 1
  ELSE LET i == setup[s].identity
       IN IF /\ participantStates[i].sttStream # s
             /\ i \notin DOMAIN abortControllers \/ abortControllers[i] # s
          THEN 3
          ELSE 2

----------------------------------------------------------------------------
\* Handling provider events

\* the entries of the store, over all participants
StoredEntries(ps) ==
  UNION {{ps[i].transcripts[k] : k \in 1..Len(ps[i].transcripts)} : i \in DOMAIN ps}

\* the payload carries the text of this entry (every storable event has a
\* text of its own; name and time are read anew for the payload)
Matches(payload, entry) == payload.text = entry.text

\* C32: a step of the consumer stores an entry or publishes a payload only for
\* a final event whose text is neither empty nor whitespace; a payload is
\* published only with its entry stored, and every published payload has a
\* stored entry that matches it.
StoredThenPublished ==
  /\ [][\A s \in Sessions :
          \A e \in ProviderEvents(StoredTranscripts + 1) :
            ProviderEvent(s, e) =>
              /\ (participantStates' # participantStates \/ published' # published)
                   => IsStorable(e)
              /\ published' # published =>
                   /\ Len(published') = Len(published) + 1
                   /\ \E entry \in StoredEntries(participantStates') \ StoredEntries(participantStates) :
                        Matches(published'[Len(published')], entry)]_vars
  /\ [](\A k \in 1..Len(published) :
          \E entry \in StoredEntries(participantStates) : Matches(published[k], entry))

\* C32 witness: with the room set, a final transcript was stored and published
WitnessPublished ==
  /\ Len(published) = 1
  /\ StoredTranscripts = 1
  /\ room

\* the place of a stored entry among the storable events the providers have
\* emitted: the text of the k-th of them is <<k>>
EmittedAs(entry) == entry.text[1]

----------------------------------------------------------------------------
\* Departure

\* the participant has departed: its disconnect event was delivered
Departed(identity) ==
  /\ identity \in DOMAIN participantStates
  /\ participantStates[identity].leftAt # <<>>

\* C34: after a participant's disconnect event is delivered, its session is
\* eventually torn down: isActive is false and the handle is released.
DepartureTearsDown ==
  \A i \in Identities :
    (Departed(i) /\ participantStates[i].isActive)
      ~> (Departed(i) /\ ~participantStates[i].isActive
                      /\ participantStates[i].sttStream = NoStream)

----------------------------------------------------------------------------
\* Append-only

\* sequence s1 is the beginning of sequence s2
IsPrefix(s1, s2) == Len(s1) <= Len(s2) /\ SubSeq(s2, 1, Len(s1)) = s1

\* C35: every step keeps every participant, keeps the transcripts each of them
\* had as the beginning of the transcripts it has afterwards, and keeps the
\* room events as the beginning of the room events afterwards.
AppendOnly ==
  [][/\ \A i \in DOMAIN participantStates :
          /\ i \in DOMAIN participantStates'
          /\ IsPrefix(participantStates[i].transcripts, participantStates'[i].transcripts)
     /\ IsPrefix(roomEvents, roomEvents')]_vars

\* C35 witness: an entry stored under the first display name is still there,
\* unchanged, after a rejoin under another name, an abort and a shutdown
WitnessEntryKeptAcrossRename ==
  /\ "a" \in DOMAIN participantStates
  /\ participantStates["a"].name = "bob"
  /\ Len(participantStates["a"].transcripts) >= 1
  /\ participantStates["a"].transcripts[1].participantName = "alice"
  /\ 1 \in aborted
  /\ isShuttingDown
  /\ exports # <<>>

----------------------------------------------------------------------------
\* Tokens, shutdown and streams

\* C36: whenever a participant's isActive is true, abortControllers holds a
\* controller for its identity whose signal is not aborted.
ActiveHasToken ==
  \A i \in DOMAIN participantStates :
    participantStates[i].isActive =>
      /\ i \in DOMAIN abortControllers
      /\ abortControllers[i] \notin aborted

\* C37: in a state with the shutdown flag set, no step opens a session: none
\* creates a provider stream or sets isActive to true.
NoSessionAfterShutdown ==
  [][isShuttingDown =>
       /\ \A s \in Sessions : ~Starts(s)
       /\ \A i \in DOMAIN participantStates :
            participantStates'[i].isActive => participantStates[i].isActive]_vars

\* C38: every provider stream that was opened and never closed is the stream
\* its participant's handle refers to.
OpenStreamIsReferenced ==
  \A s \in Sessions :
    (Created(s) /\ sttStreams[s].closeCalls = 0) =>
      participantStates[setup[s].identity].sttStream = s

\* C39: when the SIGINT handler has run to process.exit, exactly one export was
\* handed to fs.writeFile, the Disconnected handler's export included.
OneExportPerShutdown ==
  shutdownCall.pc = "exit" => Len(exports) = 1

----------------------------------------------------------------------------
\* No participant state

\* this step is call s of setupTranscription beginning, for an identity that
\* has no participant state
BeginsWithoutState(s) ==
  /\ setup[s].pc = "idle"
  /\ setup'[s].pc # "idle"
  /\ setup'[s].identity \notin DOMAIN participantStates

\* C40: a setupTranscription call for an identity without participant state
\* returns in the same step; it opens no stream, registers no token, creates
\* no participant state, starts no consumer and reports no error.
NoStateNoSession ==
  [][\A s \in Sessions : BeginsWithoutState(s) =>
       /\ setup'[s].pc = "done"
       /\ participantStates' = participantStates
       /\ abortControllers' = abortControllers
       /\ sttStreams' = sttStreams
       /\ aborted' = aborted
       /\ consumer' = consumer
       /\ reports' = reports]_vars

\* C40 witness: the audio track was subscribed before any join was recorded,
\* and the call has returned with nothing set up
WitnessSubscribedBeforeJoin ==
  /\ participantStates = EmptyMap
  /\ setup[1].pc = "done"
  /\ ~Created(1)
  /\ abortControllers = EmptyMap

====
